---- MODULE Spec2Model ----
(***************************************************************************)
(* Exact matrix engines of antjs: the static MatrixMath over bigint and    *)
(* the generic Matrices<E> over a coefficient domain, with the polynomial  *)
(* routines they call.  Arrays are functions over 0..len-1, as in the      *)
(* source; a call either returns a value or throws.                        *)
(***************************************************************************)
EXTENDS Integers, Sequences, FiniteSets, TLC

VARIABLES
    A,      \* first operand of the call
    B,      \* second operand of a binary call, <<>> otherwise
    R,      \* modulus of the coefficient domain handed to Matrices<E> (0: the integers)
            \* (not read by the engines over Rationals, whose calls carry the domain's name)
    n,      \* this.n of the Matrices<E> instance (A.length for the static class)
    op,     \* the call made, "none" before it
    out     \* what the call produced: Ret(value) or Throw(error)

vars == <<A, B, R, n, op, out>>

\* ---- bounds of the enumeration of inputs ----
\* the largest dimension of an input matrix
MaxN == 3
\* matrices of at most this many cells are enumerated over the entries -1, 0, 1
DenseCells == 9
\* larger matrices are enumerated over the entries 0, 1, with at most this many ones
MaxOnes == 6
\* the largest degree of an input polynomial
MaxDeg == 2

\* ---- arrays and results ----
length(a) == Cardinality(DOMAIN a)

Ret(v) == [tag |-> "ok", val |-> v]

Throw(e) == [tag |-> "throw", err |-> e]

Abs(x) == IF x < 0 THEN 0 - x ELSE x

\* bigint `/`: the quotient truncated toward zero
Quot(a, b) ==
    IF (a < 0) = (b < 0) THEN Abs(a) \div Abs(b) ELSE 0 - (Abs(a) \div Abs(b))

\* C7 mutant: the cofactor signs do not alternate
Sgn_noAlternation(i) == 1

\* BigInt((-1) ** i)
Sgn(i) == IF i % 2 = 0 THEN 1 ELSE -1

Ones(M) == Cardinality({ij \in (DOMAIN M) \X (DOMAIN M) : M[ij[1]][ij[2]] = 1})

SquareMats(k) ==
    IF k * k <= DenseCells
    THEN [0..(k - 1) -> [0..(k - 1) -> {-1, 0, 1}]]
    ELSE {M \in [0..(k - 1) -> [0..(k - 1) -> {0, 1}]] : Ones(M) <= MaxOnes}

\* ---- static MatrixMath ----
zero(k) == [i \in 0..(k - 1) |-> [j \in 0..(k - 1) |-> 0]]

one(k) == [i \in 0..(k - 1) |-> [j \in 0..(k - 1) |-> IF i = j THEN 1 ELSE 0]]

copy(M) == [i \in 0..(length(M) - 1) |-> [j \in 0..(length(M) - 1) |-> M[i][j]]]

\* C8 mutant: the rows below a zero pivot are not searched
PivotSearch_noSearch(U, k, kpivot) == length(U)

\* the pivot search of luDecomposition: the while loop over kpivot
RECURSIVE PivotSearch(_, _, _)
PivotSearch(U, k, kpivot) ==
    IF kpivot < length(U) /\ U[kpivot][k] = 0
    THEN PivotSearch(U, k, kpivot + 1)
    ELSE kpivot

\* the three loops that exchange rows k and kpivot of M from column k on
\* (the copy into `swap` starts at column 0, the two write-backs at column k)
SwapRows(M, k, kpivot) ==
    [i \in DOMAIN M |->
        [j \in DOMAIN M[i] |->
            IF j >= k /\ j < length(M) /\ i = k THEN M[kpivot][j]
            ELSE IF j >= k /\ j < length(M) /\ i = kpivot THEN M[k][j]
            ELSE M[i][j]]]

\* lines 298-310: one elimination step on the state s = (U, L, D, P, oldpivot)
Eliminate(s, k) ==
    LET U == s.U
        m == length(U[0])
        Ukk == U[k][k]
    IN  [U |-> [i \in DOMAIN U |->
                  IF i > k
                  THEN [j \in DOMAIN U[i] |->
                          IF j = k THEN 0
                          ELSE IF j > k /\ j < m
                               THEN Quot(Ukk * U[i][j] - U[k][j] * U[i][k], s.oldpivot)
                               ELSE U[i][j]]
                  ELSE U[i]],
         L |-> [i \in DOMAIN s.L |->
                  [j \in DOMAIN s.L[i] |->
                      IF j = k /\ i >= k THEN U[i][k] ELSE s.L[i][j]]],
         D |-> [i \in DOMAIN s.D |->
                  [j \in DOMAIN s.D[i] |->
                      IF i = k /\ j = k THEN s.oldpivot * Ukk ELSE s.D[i][j]]],
         P |-> s.P,
         oldpivot |-> Ukk]

\* the for loop over k of luDecomposition, from step k up to (not including) step upto
RECURSIVE LuLoop(_, _, _)
LuLoop(s, k, upto) ==
    IF k >= upto THEN Ret(s)
    ELSE IF s.U[k][k] = 0
         THEN LET kpivot == PivotSearch(s.U, k, k + 1)
              IN  IF kpivot = length(s.U)
                  THEN Throw("Matrix not full rank")
                  ELSE LuLoop(Eliminate([s EXCEPT !.U = SwapRows(s.U, k, kpivot),
                                                  !.P = SwapRows(s.P, k, kpivot)], k),
                              k + 1, upto)
         ELSE LuLoop(Eliminate(s, k), k + 1, upto)

\* lines 247-256: the working matrices before the first step
LuStart(M) ==
    [U |-> copy(M), L |-> one(length(M)), D |-> zero(length(M)), P |-> one(length(M)),
     oldpivot |-> 1]

\* MatrixMath.luDecomposition: the array it returns, in the order of its return statement
luDecomposition(M) ==
    LET k == length(M)
        r == LuLoop(LuStart(M), 0, k)
    IN  IF r.tag = "throw" THEN r
        ELSE LET s == r.val
                 D == [s.D EXCEPT ![k - 1][k - 1] = s.oldpivot]
             IN  Ret(<<s.P, s.L, s.U, D>>)

\* MatrixMath.add: `n` is A.length; B[i] is undefined past B's last row and
\* B[i][j] past its last column, and either read makes the sum throw a TypeError
add(M, N) ==
    IF length(N) < length(M) THEN Throw("TypeError")
    ELSE Ret([i \in DOMAIN M |-> [j \in DOMAIN M |-> M[i][j] + N[i][j]]])

scale(M, k) == [i \in DOMAIN M |-> [j \in DOMAIN M |-> k * M[i][j]]]

sub(M, N) == add(M, scale(N, -1))

RECURSIVE DotFrom(_, _, _, _, _)
DotFrom(M, N, i, j, k) ==
    IF k >= length(M) THEN 0 ELSE M[i][k] * N[k][j] + DotFrom(M, N, i, j, k + 1)

\* MatrixMath.mul: the triple loop runs to A.length on both operands
mul(M, N) ==
    IF length(N) < length(M) THEN Throw("TypeError")
    ELSE Ret([i \in DOMAIN M |-> [j \in DOMAIN M |-> DotFrom(M, N, i, j, 0)]])

minor(M, i, j) ==
    [r \in 0..(length(M) - 2) |->
        [c \in 0..(length(M) - 2) |->
            M[IF r >= i THEN r + 1 ELSE r][IF c >= j THEN c + 1 ELSE c]]]

RECURSIVE det(_), detLoop(_, _, _)
\* the for loop of MatrixMath.det from row i on, D the sum so far
detLoop(M, i, D) ==
    IF i >= length(M) THEN D
    ELSE detLoop(M, i + 1, D + M[i][0] * det(minor(M, i, 0)) * Sgn(i))

det(M) == IF length(M) = 1 THEN M[0][0] ELSE detLoop(M, 0, 0)

cofactor(M) ==
    [i \in DOMAIN M |-> [j \in DOMAIN M |-> det(minor(M, i, j)) * Sgn(i + j)]]

transpose(M) == [i \in DOMAIN M |-> [j \in DOMAIN M |-> M[j][i]]]

\* C10 mutant: a determinant of -1 is rejected
inverse_onlyOne(M) ==
    LET d == det(M)
    IN  IF d # 1 THEN Throw("expected matrix in GLn(Z)")
        ELSE Ret(transpose(scale(cofactor(M), d)))

inverse(M) ==
    LET d == det(M)
    IN  IF d # 1 /\ d # -1 THEN Throw("expected matrix in GLn(Z)")
        ELSE Ret(transpose(scale(cofactor(M), d)))

\* ---- static PolynomialMath ----
deg(f) == length(f) - 1

Poly_zero == [i \in 0..0 |-> 0]

\* C5 mutant: the result keeps the n elements of `new Array(n)`, without h[n]
Poly_add_dropTop(f, g) ==
    LET hi == IF deg(f) < deg(g) THEN g ELSE f
        lo == IF deg(f) < deg(g) THEN f ELSE g
    IN  [i \in 0..(deg(hi) - 1) |-> IF i <= deg(lo) THEN hi[i] + lo[i] ELSE hi[i]]

\* `new Array(n)` grows to n + 1 elements when the loops assign h[0..n]
Poly_add(f, g) ==
    LET hi == IF deg(f) < deg(g) THEN g ELSE f
        lo == IF deg(f) < deg(g) THEN f ELSE g
    IN  [i \in 0..deg(hi) |-> IF i <= deg(lo) THEN hi[i] + lo[i] ELSE hi[i]]

RECURSIVE ConvFrom(_, _, _, _)
\* the coefficient h[k] of PolynomialMath.mul: the sum of f[i] * g[k - i] from i on
ConvFrom(f, g, k, i) ==
    IF i > deg(f) THEN 0
    ELSE (IF k - i >= 0 /\ k - i <= deg(g) THEN f[i] * g[k - i] ELSE 0)
         + ConvFrom(f, g, k, i + 1)

Poly_mul(f, g) == [k \in 0..(deg(f) + deg(g)) |-> ConvFrom(f, g, k, 0)]

Poly_scale(f, k) == [i \in DOMAIN f |-> k * f[i]]

\* the matrix B of charPoly: x*I - A with polynomial entries
charMatrix(M) ==
    [i \in DOMAIN M |->
        [j \in DOMAIN M |->
            IF i = j THEN [c \in 0..1 |-> IF c = 0 THEN 0 - M[i][j] ELSE 1]
            ELSE [c \in 0..0 |-> 0 - M[i][j]]]]

RECURSIVE charDet(_), charDetLoop(_, _, _)
\* the for loop of the inner det of charPoly from row i on, f the sum so far
charDetLoop(M, i, f) ==
    IF i >= length(M) THEN f
    ELSE charDetLoop(M, i + 1,
            Poly_add(f, Poly_scale(Poly_mul(M[i][0], charDet(minor(M, i, 0))), Sgn(i))))

charDet(M) == IF length(M) <= 1 THEN M[0][0] ELSE charDetLoop(M, 0, Poly_zero)

charPoly(M) == charDet(charMatrix(M))

\* ---- a coefficient domain Domain<E>: the integers (r = 0) or the integers mod r ----
Rings == {0, 5}

ring_bint(r, a) == IF r = 0 THEN a ELSE a % r

ring_zero(r) == 0

ring_one(r) == ring_bint(r, 1)

ring_add(r, x, y) == ring_bint(r, x + y)

ring_sub(r, x, y) == ring_bint(r, x - y)

ring_mul(r, x, y) == ring_bint(r, x * y)

ring_scale(r, s, x) == ring_bint(r, s * x)

ring_isUnit(r, x) ==
    IF r = 0 THEN x \in {1, -1} ELSE \E y \in 0..(r - 1) : (x * y) % r = 1

\* ---- generic Polynomials<E> over the domain r ----
Polynomials_zero == <<>>

Polynomials_x1(r) == [i \in 0..1 |-> IF i = 0 THEN ring_zero(r) ELSE ring_one(r)]

Polynomials_fromElement(e) == [i \in 0..0 |-> e]

Polynomials_int(r, k) == [i \in 0..0 |-> ring_bint(r, k)]

\* for operands that are not both empty: with two empty operands `new Array(-1)`
\* throws a RangeError before any coefficient is written
Polynomials_add(r, f, g) ==
    LET hi == IF deg(f) < deg(g) THEN g ELSE f
        lo == IF deg(f) < deg(g) THEN f ELSE g
    IN  [i \in 0..deg(hi) |-> IF i <= deg(lo) THEN ring_add(r, hi[i], lo[i]) ELSE hi[i]]

Polynomials_scale(r, f, k) == [i \in DOMAIN f |-> ring_mul(r, k, f[i])]

Polynomials_sub(r, f, g) ==
    Polynomials_add(r, f, Polynomials_scale(r, g, ring_sub(r, ring_zero(r), ring_one(r))))

RECURSIVE Polynomials_conv(_, _, _, _, _)
Polynomials_conv(r, f, g, k, i) ==
    IF i > deg(f) THEN ring_zero(r)
    ELSE ring_add(r,
            IF k - i >= 0 /\ k - i <= deg(g) THEN ring_mul(r, f[i], g[k - i]) ELSE ring_zero(r),
            Polynomials_conv(r, f, g, k, i + 1))

\* for operands that are not both empty (`new Array(n + m + 1)` with n = m = -1 throws)
Polynomials_mul(r, f, g) ==
    [k \in 0..(deg(f) + deg(g)) |-> Polynomials_conv(r, f, g, k, 0)]

\* ---- generic Matrices<E>: the engine is (r, m) = (this.ring, this.n) ----
Matrices_zero(m) == [i \in 0..(m - 1) |-> [j \in 0..(m - 1) |-> 0]]

Matrices_one(r, m) ==
    [i \in 0..(m - 1) |-> [j \in 0..(m - 1) |-> IF i = j THEN ring_one(r) ELSE 0]]

Matrices_add(r, m, M, N) ==
    IF length(M) # m \/ length(N) # m THEN Throw("expected n")
    ELSE Ret([i \in 0..(m - 1) |-> [j \in 0..(m - 1) |-> ring_add(r, M[i][j], N[i][j])]])

Matrices_sub(r, m, M, N) ==
    IF length(M) # m \/ length(N) # m THEN Throw("expected n")
    ELSE Ret([i \in 0..(m - 1) |-> [j \in 0..(m - 1) |-> ring_sub(r, M[i][j], N[i][j])]])

RECURSIVE Matrices_dot(_, _, _, _, _, _, _, _)
\* the k loop of Matrices.mul: C[i][j] = ring.add(C[i][j], ring.mul(A[i][k], B[k][j]))
Matrices_dot(r, m, M, N, i, j, k, c) ==
    IF k >= m THEN c
    ELSE Matrices_dot(r, m, M, N, i, j, k + 1, ring_add(r, c, ring_mul(r, M[i][k], N[k][j])))

Matrices_mul(r, m, M, N) ==
    IF length(M) # m \/ length(N) # m THEN Throw("expected n")
    ELSE Ret([i \in 0..(m - 1) |-> [j \in 0..(m - 1) |-> Matrices_dot(r, m, M, N, i, j, 0, 0)]])

Matrices_scale(r, m, e, M) ==
    IF length(M) # m THEN Throw("expected n")
    ELSE Ret([i \in 0..(m - 1) |-> [j \in 0..(m - 1) |-> ring_mul(r, e, M[i][j])]])

RECURSIVE Matrices_det(_, _), Matrices_detLoop(_, _, _, _)
Matrices_detLoop(r, M, i, D) ==
    IF i >= length(M) THEN D
    ELSE Matrices_detLoop(r, M, i + 1,
            ring_add(r, D, ring_mul(r, M[i][0],
                                    ring_scale(r, Sgn(i), Matrices_det(r, minor(M, i, 0))))))

Matrices_det(r, M) == IF length(M) = 1 THEN M[0][0] ELSE Matrices_detLoop(r, M, 0, ring_zero(r))

Matrices_cofactor(r, m, M) ==
    IF length(M) # m THEN Throw("expected n")
    ELSE Ret([i \in 0..(m - 1) |->
                [j \in 0..(m - 1) |->
                    ring_scale(r, Sgn(i + j), Matrices_det(r, minor(M, i, j)))]])

Matrices_transpose(m, M) ==
    IF length(M) # m THEN Throw("expected n")
    ELSE Ret([i \in 0..(m - 1) |-> [j \in 0..(m - 1) |-> M[j][i]]])

Matrices_inverse(r, m, M) ==
    LET d == Matrices_det(r, M)
    IN  IF ~ring_isUnit(r, d) THEN Throw("expected matrix in GLn(R)")
        ELSE LET C == Matrices_cofactor(r, m, M)
             IN  IF C.tag = "throw" THEN C
                 ELSE Matrices_transpose(m, Matrices_scale(r, m, d, C.val).val)

\* the matrix B of characteristicPolynomial: x*I - A over Polynomials<E>
Matrices_charMatrix(r, m, M) ==
    [i \in 0..(m - 1) |->
        [j \in 0..(m - 1) |->
            Polynomials_sub(r, IF i = j THEN Polynomials_x1(r) ELSE Polynomials_zero,
                            Polynomials_fromElement(M[i][j]))]]

RECURSIVE Matrices_charDet(_, _, _), Matrices_charDetLoop(_, _, _, _, _)
\* the for loop of the inner det of characteristicPolynomial: it runs i to this.n,
\* and A[i] is undefined from A.length on, so that reading A[i][0] throws
Matrices_charDetLoop(r, m, M, i, f) ==
    IF i >= m THEN Ret(f)
    ELSE IF i >= length(M) THEN Throw("TypeError")
    ELSE LET c == Matrices_charDet(r, m, minor(M, i, 0))
         IN  IF c.tag = "throw" THEN c
             ELSE Matrices_charDetLoop(r, m, M, i + 1,
                     Polynomials_add(r, f,
                         Polynomials_mul(r, Polynomials_mul(r, M[i][0], c.val),
                                         Polynomials_int(r, Sgn(i)))))

Matrices_charDet(r, m, M) ==
    IF length(M) <= 1 THEN Ret(M[0][0])
    ELSE Matrices_charDetLoop(r, m, M, 0, Polynomials_zero)

Matrices_characteristicPolynomial(r, m, M) ==
    Matrices_charDet(r, m, Matrices_charMatrix(r, m, M))

\* ---- inputs ----
\* the caller's integer matrix as a matrix over the domain r (ring.bint entry by entry)
InRing(r, M) == [i \in DOMAIN M |-> [j \in DOMAIN M[i] |-> ring_bint(r, M[i][j])]]

\* the operands of a binary call: a constant diagonal and a constant off-diagonal value
PatternMats(k) ==
    {[i \in 0..(k - 1) |-> [j \in 0..(k - 1) |-> IF i = j THEN d ELSE o]] :
        d \in {-1, 0, 1}, o \in {-1, 0, 1}}

\* one square integer matrix
InitUnary ==
    /\ \E k \in 1..MaxN : A \in SquareMats(k)
    /\ B = <<>>
    /\ R = 0
    /\ n = length(A)
    /\ op = "none"
    /\ out = <<>>

\* two square matrices, of equal or different dimensions
InitBinary ==
    /\ \E k \in 1..MaxN : A \in PatternMats(k)
    /\ \E k \in 1..MaxN : B \in PatternMats(k)
    /\ R = 0
    /\ n = length(A)
    /\ op = "none"
    /\ out = <<>>

\* ---- calls of the static MatrixMath ----
LuDecomposition ==
    /\ op = "none"
    /\ op' = "luDecomposition"
    /\ out' = luDecomposition(A)
    /\ UNCHANGED <<A, B, R, n>>

Det ==
    /\ op = "none"
    /\ op' = "det"
    /\ out' = Ret(det(A))
    /\ UNCHANGED <<A, B, R, n>>

Inverse ==
    /\ op = "none"
    /\ op' = "inverse"
    /\ out' = inverse(A)
    /\ UNCHANGED <<A, B, R, n>>

CharPoly ==
    /\ op = "none"
    /\ op' = "charPoly"
    /\ out' = Ret(charPoly(A))
    /\ UNCHANGED <<A, B, R, n>>

Add ==
    /\ op = "none"
    /\ op' = "add"
    /\ out' = add(A, B)
    /\ UNCHANGED <<A, B, R, n>>

Sub ==
    /\ op = "none"
    /\ op' = "sub"
    /\ out' = sub(A, B)
    /\ UNCHANGED <<A, B, R, n>>

Mul ==
    /\ op = "none"
    /\ op' = "mul"
    /\ out' = mul(A, B)
    /\ UNCHANGED <<A, B, R, n>>

\* ---- calls of a generic engine new Matrices(R, n) ----
MatricesDet ==
    /\ op = "none"
    /\ op' = "Matrices.det"
    /\ \E r \in Rings :
        /\ R' = r
        /\ out' = Ret(Matrices_det(r, InRing(r, A)))
    /\ UNCHANGED <<A, B, n>>

MatricesInverse ==
    /\ op = "none"
    /\ op' = "Matrices.inverse"
    /\ \E r \in Rings, m \in {length(A), MaxN} :
        /\ R' = r
        /\ n' = m
        /\ out' = Matrices_inverse(r, m, InRing(r, A))
    /\ UNCHANGED <<A, B>>

MatricesCharacteristicPolynomial ==
    /\ op = "none"
    /\ op' = "Matrices.characteristicPolynomial"
    /\ \E r \in Rings :
        /\ R' = r
        /\ out' = Matrices_characteristicPolynomial(r, n, InRing(r, A))
    /\ UNCHANGED <<A, B, n>>

MatricesAdd ==
    /\ op = "none"
    /\ op' = "Matrices.add"
    /\ \E r \in Rings, m \in 1..MaxN :
        /\ R' = r
        /\ n' = m
        /\ out' = Matrices_add(r, m, InRing(r, A), InRing(r, B))
    /\ UNCHANGED <<A, B>>

MatricesSub ==
    /\ op = "none"
    /\ op' = "Matrices.sub"
    /\ \E r \in Rings, m \in 1..MaxN :
        /\ R' = r
        /\ n' = m
        /\ out' = Matrices_sub(r, m, InRing(r, A), InRing(r, B))
    /\ UNCHANGED <<A, B>>

MatricesMul ==
    /\ op = "none"
    /\ op' = "Matrices.mul"
    /\ \E r \in Rings, m \in 1..MaxN :
        /\ R' = r
        /\ n' = m
        /\ out' = Matrices_mul(r, m, InRing(r, A), InRing(r, B))
    /\ UNCHANGED <<A, B>>

\* ---- specifications: one family of calls each ----
NextLU == LuDecomposition

SpecLU == InitUnary /\ [][NextLU]_vars

NextDet == Det \/ MatricesDet

SpecDet == InitUnary /\ [][NextDet]_vars

NextInv == Inverse \/ MatricesInverse

SpecInv == InitUnary /\ [][NextInv]_vars

NextChar == CharPoly \/ MatricesCharacteristicPolynomial

SpecChar == InitUnary /\ [][NextChar]_vars

NextBin == Add \/ Sub \/ Mul \/ MatricesAdd \/ MatricesSub \/ MatricesMul

SpecBin == InitBinary /\ [][NextBin]_vars

Init == InitUnary

Next == NextLU \/ NextDet \/ NextInv \/ NextChar

Spec == Init /\ [][Next]_vars

\* ---- vocabulary of the properties ----
diagProduct(M) ==
    LET RECURSIVE prodFrom(_)
        prodFrom(i) == IF i >= length(M) THEN 1 ELSE M[i][i] * prodFrom(i + 1)
    IN  prodFrom(0)

\* diag(d / D[i][i]), the matrix dDinv of the LU test
clearedInverse(D, d) ==
    [i \in DOMAIN D |-> [j \in DOMAIN D |-> IF i # j THEN 0 ELSE Quot(d, D[i][i])]]

IsPermutationMatrix(M) ==
    /\ \A i \in DOMAIN M : \A j \in DOMAIN M : M[i][j] \in {0, 1}
    /\ \A i \in DOMAIN M : Cardinality({j \in DOMAIN M : M[i][j] = 1}) = 1
    /\ \A j \in DOMAIN M : Cardinality({i \in DOMAIN M : M[i][j] = 1}) = 1

IsLowerTriangular(M) == \A i \in DOMAIN M : \A j \in DOMAIN M : j > i => M[i][j] = 0

IsUpperTriangular(M) == \A i \in DOMAIN M : \A j \in DOMAIN M : j < i => M[i][j] = 0

IsDiagonal(M) == \A i \in DOMAIN M : \A j \in DOMAIN M : j # i => M[i][j] = 0

Inversions(p) ==
    Cardinality({ij \in (DOMAIN p) \X (DOMAIN p) : ij[1] < ij[2] /\ p[ij[1]] > p[ij[2]]})

RECURSIVE PermutationSeq(_)
\* the k! permutations of 0..k-1 in a sequence: k-1 put at each of the k places
\* of each permutation of 0..k-2
PermutationSeq(k) ==
    IF k = 0 THEN << <<>> >>
    ELSE LET prev == PermutationSeq(k - 1)
         IN  [t \in 1..(Len(prev) * k) |->
                LET q == prev[((t - 1) \div k) + 1]
                    pos == (t - 1) % k
                IN  [i \in 0..(k - 1) |->
                        IF i < pos THEN q[i] ELSE IF i = pos THEN k - 1 ELSE q[i - 1]]]

\* the largest dimension of a determinant: an input matrix, or the Sylvester
\* matrix of two input polynomials
MaxDim == IF MaxN > 2 * MaxDeg THEN MaxN ELSE 2 * MaxDeg

\* for each dimension k, the permutations of 0..k-1, each with its sign
SignedPermutations ==
    [k \in 0..MaxDim |->
        LET ps == PermutationSeq(k)
        IN  [t \in 1..Len(ps) |->
                [perm |-> ps[t], sign |-> IF Inversions(ps[t]) % 2 = 0 THEN 1 ELSE -1]]]

RECURSIVE LeibnizProduct(_, _, _)
LeibnizProduct(M, p, i) ==
    IF i >= length(M) THEN 1 ELSE M[i][p[i]] * LeibnizProduct(M, p, i + 1)

RECURSIVE LeibnizSum(_, _, _, _)
\* the signed products of the permutations sp[lo..hi], summed by halves
LeibnizSum(M, sp, lo, hi) ==
    IF lo > hi THEN 0
    ELSE IF lo = hi THEN sp[lo].sign * LeibnizProduct(M, sp[lo].perm, 0)
    ELSE LET mid == (lo + hi) \div 2
         IN  LeibnizSum(M, sp, lo, mid) + LeibnizSum(M, sp, mid + 1, hi)

\* the signed sum over all permutations of the products of entries
Leibniz(M) ==
    LET sp == SignedPermutations[length(M)]
    IN  LeibnizSum(M, sp, 1, Len(sp))

\* ---- C1..C10 ----

\* C1: for every nonsingular A, luDecomposition(A) destructured as [P, L, D, U]
\* satisfies P*A = L*D^(-1)*U exactly: with d a common multiple of D's diagonal
\* (here its product), d*(P*A) = L * diag(d / D[i][i]) * U.
C1_PAEqualsLDinvU ==
    (op = "luDecomposition" /\ out.tag = "ok") =>
        LET P == out.val[1]
            L == out.val[2]
            D == out.val[3]
            U == out.val[4]
            d == diagProduct(D)
        IN  /\ d # 0
            /\ scale(mul(P, A).val, d) = mul(L, mul(clearedInverse(D, d), U).val).val

\* C2: luDecomposition(A) returns (P, L, D, U) in this order, P a permutation
\* matrix, L lower-triangular, D diagonal and U upper-triangular.
C2_TupleShapes ==
    (op = "luDecomposition" /\ out.tag = "ok") =>
        /\ IsPermutationMatrix(out.val[1])
        /\ IsLowerTriangular(out.val[2])
        /\ IsDiagonal(out.val[3])
        /\ IsUpperTriangular(out.val[4])

\* C3: for an integer matrix A with det(A) in {1, -1}, inverse(A) of either engine
\* returns B with A*B = one(n), and inverse(B) = A.
C3_InverseOfUnimodular ==
    /\ (op = "inverse" /\ det(A) \in {1, -1}) =>
            /\ out.tag = "ok"
            /\ mul(A, out.val) = Ret(one(length(A)))
            /\ inverse(out.val) = Ret(A)
    /\ (op = "Matrices.inverse" /\ R = 0 /\ n = length(A) /\ det(A) \in {1, -1}) =>
            /\ out.tag = "ok"
            /\ Matrices_mul(0, n, A, out.val) = Ret(Matrices_one(0, n))
            /\ Matrices_inverse(0, n, out.val) = Ret(A)

\* C4: over any domain, when d = det(A) is a unit, A * inverse(A) is d*d times
\* the identity, so inverse(A) is an inverse exactly when d*d is the domain's one.
C4_InverseScalesByDet ==
    (op = "Matrices.inverse" /\ n = length(A)
        /\ ring_isUnit(R, Matrices_det(R, InRing(R, A)))) =>
        LET d == Matrices_det(R, InRing(R, A))
            dd == ring_mul(R, d, d)
            prod == Matrices_mul(R, n, InRing(R, A), out.val)
        IN  /\ out.tag = "ok"
            /\ prod = Matrices_scale(R, n, dd, Matrices_one(R, n))
            /\ (prod = Ret(Matrices_one(R, n))) <=> (dd = ring_one(R))

\* C5: charPoly(A) has length n + 1, top coefficient 1 and constant coefficient
\* (-1)^n * det(A).
C5_CharPolyMonic ==
    (op = "charPoly") =>
        /\ out.tag = "ok"
        /\ length(out.val) = length(A) + 1
        /\ out.val[length(A)] = 1
        /\ out.val[0] = Sgn(length(A)) * Leibniz(A)

C5_Witness ==
    /\ op = "charPoly"
    /\ length(A) = 3
    /\ out.val[0] = 2
    /\ A[1][0] # 0
    /\ A[1][1] = 0

\* C6: for every n, Matrices<Z>(n).characteristicPolynomial(A) returns normally,
\* and returns what the static charPoly(A) returns.
C6_GenericCharPolyAgrees ==
    (op = "Matrices.characteristicPolynomial" /\ R = 0) =>
        /\ out.tag = "ok"
        /\ out.val = charPoly(A)

\* C7: det(A) of either engine is the Leibniz determinant of A (in the engine's
\* domain); in particular det(one(n)) = 1.
C7_DetIsLeibniz ==
    /\ (op = "det") => out = Ret(Leibniz(A))
    /\ (op = "Matrices.det") => out = Ret(ring_bint(R, Leibniz(A)))
    /\ (op \in {"det", "Matrices.det"} /\ A = one(length(A))) => out.val = 1

C7_Witness ==
    /\ op \in {"det", "Matrices.det"}
    /\ R = 0
    /\ length(A) = 3
    /\ A[0][0] = 0
    /\ A[1][0] # 0
    /\ out.val = -3

\* the working matrix at the start of some step k has a zero pivot and only
\* zeros below it in column k
RECURSIVE PivotMissingFrom(_, _)
PivotMissingFrom(s, k) ==
    /\ k < length(s.U)
    /\ \/ \A i \in k..(length(s.U) - 1) : s.U[i][k] = 0
       \/ PivotMissingFrom(LuLoop(s, k, k + 1).val, k + 1)

PivotMissing(M) == PivotMissingFrom(LuStart(M), 0)

\* C8: luDecomposition(A) throws "Matrix not full rank" exactly when det(A) = 0,
\* which is exactly when some step finds no non-zero pivot candidate; otherwise
\* it returns its four matrices.
C8_RankDeficientIffSingular ==
    (op = "luDecomposition") =>
        LET d == Leibniz(A)
        IN  /\ (out = Throw("Matrix not full rank")) <=> (d = 0)
            /\ (out.tag = "ok") <=> (d # 0)
            /\ (out.tag = "throw") <=> PivotMissing(A)
            /\ (out.tag = "ok") => Len(out.val) = 4

\* a 3 x 3 matrix whose first step swaps rows and whose last step finds no pivot
C8_Witness ==
    /\ op = "luDecomposition"
    /\ length(A) = 3
    /\ A[0][0] = 0
    /\ A[1][0] # 0
    /\ LuLoop(LuStart(A), 0, 2).tag = "ok"
    /\ out = Throw("Matrix not full rank")

\* C9: add, sub and mul of every engine throw whenever the operands' dimensions
\* differ from each other or from the engine's n; they return no matrix then.
C9_MismatchThrows ==
    /\ (op \in {"add", "sub", "mul"} /\ length(A) # length(B)) => out.tag = "throw"
    /\ (op \in {"Matrices.add", "Matrices.sub", "Matrices.mul"}
            /\ (length(A) # n \/ length(B) # n)) => out.tag = "throw"

\* C10: inverse(A) throws exactly when det(A) is not a unit: for the static class
\* when det(A) is neither 1 nor -1, for Matrices<D>(n) and an n x n matrix A when
\* D.isUnit(det(A)) is false.
C10_InverseThrowsIffNotUnit ==
    /\ (op = "inverse") => ((out.tag = "throw") <=> (Leibniz(A) \notin {1, -1}))
    /\ (op = "Matrices.inverse" /\ n = length(A)) =>
            ((out.tag = "throw") <=> ~ring_isUnit(R, ring_bint(R, Leibniz(A))))
    /\ (op \in {"inverse", "Matrices.inverse"} /\ out.tag = "ok") =>
            length(out.val) = length(A)

C10_Witness ==
    /\ op = "Matrices.inverse"
    /\ R = 5
    /\ length(A) = 3
    /\ n = 3
    /\ Leibniz(A) = 2
    /\ out.tag = "ok"

\* ---- the fraction classes (Rationals; BigFractionMath is the same code) ----
\* A value held by a cell of a Matrix<Fraction> or handed to Rationals is the
\* array [a, b] or a bare bigint k; `at` holds its entries, x[0] being at[1].
Bigint(k) == [kind |-> "bigint", at |-> <<k>>]

Fraction(a, b) == [kind |-> "array", at |-> <<a, b>>]

\* Integers.gcd of two arguments: the non-negative greatest common divisor
RECURSIVE gcd(_, _)
gcd(a, b) == IF b = 0 THEN Abs(a) ELSE gcd(Abs(b), Abs(a) % Abs(b))

Rationals_one == Fraction(1, 1)

Rationals_zero == Fraction(0, 1)

\* reduce([a, b]): a / d and b / d throw a RangeError (division by zero) when d is 0n
Rationals_reduce(a, b) ==
    LET d == gcd(a, b)
    IN  IF d = 0 THEN Throw("RangeError") ELSE Ret(Fraction(Quot(a, d), Quot(b, d)))

\* In add, sub, mul and div a bigint operand x has x[0] undefined, and the first
\* product of undefined with a bigint throws a TypeError (written for calls with
\* at most one bigint operand, the only ones the engines make).
Rationals_add(x, y) ==
    IF x.kind = "bigint" \/ y.kind = "bigint" THEN Throw("TypeError")
    ELSE Rationals_reduce(x.at[1] * y.at[2] + x.at[2] * y.at[1], x.at[2] * y.at[2])

Rationals_mul(x, y) ==
    IF x.kind = "bigint" \/ y.kind = "bigint" THEN Throw("TypeError")
    ELSE Rationals_reduce(x.at[1] * y.at[1], x.at[2] * y.at[2])

Rationals_scale(k, x) ==
    IF x.kind = "bigint" THEN Throw("TypeError")
    ELSE Rationals_reduce(k * x.at[1], x.at[2])

Rationals_sub(x, y) ==
    IF x.kind = "bigint" \/ y.kind = "bigint" THEN Throw("TypeError")
    ELSE Rationals_reduce(x.at[1] * y.at[2] - x.at[2] * y.at[1], x.at[2] * y.at[2])

Rationals_div(x, y) ==
    IF x.kind = "bigint" \/ y.kind = "bigint" THEN Throw("TypeError")
    ELSE Rationals_reduce(x.at[1] * y.at[2], x.at[2] * y.at[1])

\* ---- the engine new Matrices(Rationals, m) ----
\* zero() writes the literal 0n into every cell, whatever the domain
RationalsMatrices_zero(m) ==
    [i \in 0..(m - 1) |-> [j \in 0..(m - 1) |-> Bigint(Matrices_zero(m)[i][j])]]

RationalsMatrices_one(m) ==
    [i \in 0..(m - 1) |->
        [j \in 0..(m - 1) |-> IF i = j THEN Rationals_one ELSE RationalsMatrices_zero(m)[i][j]]]

\* the matrix of the cells' values, or what the first cell (row by row) that throws threw
FirstThrow(m, cells) ==
    LET thrown == {p \in (0..(m - 1)) \X (0..(m - 1)) : cells[p[1]][p[2]].tag = "throw"}
    IN  IF thrown = {}
        THEN Ret([i \in 0..(m - 1) |-> [j \in 0..(m - 1) |-> cells[i][j].val]])
        ELSE LET p == CHOOSE q \in thrown :
                        \A t \in thrown : q[1] < t[1] \/ (q[1] = t[1] /\ q[2] <= t[2])
             IN  cells[p[1]][p[2]]

RationalsMatrices_add(m, M, N) ==
    IF length(M) # m \/ length(N) # m THEN Throw("expected n")
    ELSE FirstThrow(m, [i \in 0..(m - 1) |->
                          [j \in 0..(m - 1) |-> Rationals_add(M[i][j], N[i][j])]])

RECURSIVE RationalsMatrices_dot(_, _, _, _, _, _, _)
\* the k loop of Matrices.mul, c the cell C[i][j] so far
RationalsMatrices_dot(m, M, N, i, j, k, c) ==
    IF k >= m THEN Ret(c)
    ELSE LET p == Rationals_mul(M[i][k], N[k][j])
         IN  IF p.tag = "throw" THEN p
             ELSE LET t == Rationals_add(c, p.val)
                  IN  IF t.tag = "throw" THEN t
                      ELSE RationalsMatrices_dot(m, M, N, i, j, k + 1, t.val)

RationalsMatrices_mul(m, M, N) ==
    IF length(M) # m \/ length(N) # m THEN Throw("expected n")
    ELSE FirstThrow(m, [i \in 0..(m - 1) |->
                          [j \in 0..(m - 1) |->
                              RationalsMatrices_dot(m, M, N, i, j, 0,
                                                    RationalsMatrices_zero(m)[i][j])]])

\* ---- zero() and one() of the generic engine, over three domains ----
\* the fractions a caller's matrix holds
QValues == {Fraction(0, 1), Fraction(1, 1), Fraction(-1, 2), Fraction(2, 3)}

QPatternMats(k) ==
    {[i \in 0..(k - 1) |-> [j \in 0..(k - 1) |-> IF i = j THEN d ELSE o]] :
        d \in QValues, o \in QValues}

\* an engine of dimension n, a matrix A of fractions and a matrix B of integers
InitZeroOne ==
    /\ n \in 1..MaxN
    /\ A \in QPatternMats(n)
    /\ B \in PatternMats(n)
    /\ R = 0
    /\ op = "none"
    /\ out = <<>>

MatricesZero ==
    /\ op = "none"
    /\ op' = "Matrices.zero"
    /\ R' \in Rings
    /\ out' = Ret(Matrices_zero(n))
    /\ UNCHANGED <<A, B, n>>

MatricesOne ==
    /\ op = "none"
    /\ op' = "Matrices.one"
    /\ \E r \in Rings :
        /\ R' = r
        /\ out' = Ret(Matrices_one(r, n))
    /\ UNCHANGED <<A, B, n>>

MatricesAddZero ==
    /\ op = "none"
    /\ op' = "Matrices.add(zero, B)"
    /\ \E r \in Rings :
        /\ R' = r
        /\ out' = Matrices_add(r, n, Matrices_zero(n), InRing(r, B))
    /\ UNCHANGED <<A, B, n>>

MatricesMulOne ==
    /\ op = "none"
    /\ op' = "Matrices.mul(one, one)"
    /\ \E r \in Rings :
        /\ R' = r
        /\ out' = Matrices_mul(r, n, Matrices_one(r, n), Matrices_one(r, n))
    /\ UNCHANGED <<A, B, n>>

RationalsMatricesZero ==
    /\ op = "none"
    /\ op' = "Matrices<Rationals>.zero"
    /\ out' = Ret(RationalsMatrices_zero(n))
    /\ UNCHANGED <<A, B, R, n>>

RationalsMatricesOne ==
    /\ op = "none"
    /\ op' = "Matrices<Rationals>.one"
    /\ out' = Ret(RationalsMatrices_one(n))
    /\ UNCHANGED <<A, B, R, n>>

RationalsMatricesAddZero ==
    /\ op = "none"
    /\ op' = "Matrices<Rationals>.add(zero, A)"
    /\ out' = RationalsMatrices_add(n, RationalsMatrices_zero(n), A)
    /\ UNCHANGED <<A, B, R, n>>

RationalsMatricesMulOne ==
    /\ op = "none"
    /\ op' = "Matrices<Rationals>.mul(one, one)"
    /\ out' = RationalsMatrices_mul(n, RationalsMatrices_one(n), RationalsMatrices_one(n))
    /\ UNCHANGED <<A, B, R, n>>

NextZeroOne ==
    \/ MatricesZero \/ MatricesOne \/ MatricesAddZero \/ MatricesMulOne
    \/ RationalsMatricesZero \/ RationalsMatricesOne
    \/ RationalsMatricesAddZero \/ RationalsMatricesMulOne

SpecZeroOne == InitZeroOne /\ [][NextZeroOne]_vars

\* ---- calls of add of the two polynomial engines ----
\* the coefficient arrays of length lo..hi over -1, 0, 1
Polys(lo, hi) == UNION {[0..(k - 1) -> {-1, 0, 1}] : k \in lo..hi}

\* the whole call of the generic add: `new Array(n)` with n = deg(f) = -1 throws
\* a RangeError (invalid array length), which happens when both operands are empty
Polynomials_addCall(r, f, g) ==
    IF deg(f) < 0 /\ deg(g) < 0 THEN Throw("RangeError") ELSE Ret(Polynomials_add(r, f, g))

\* the caller's integer coefficients as elements of the domain r
PolyInRing(r, f) == [i \in DOMAIN f |-> ring_bint(r, f[i])]

\* two coefficient arrays; the empty array is the generic engine's zero()
InitPolyAdd ==
    /\ A \in Polys(0, MaxDeg + 1)
    /\ B \in Polys(0, MaxDeg + 1)
    /\ R = 0
    /\ n = 0
    /\ op = "none"
    /\ out = <<>>

\* the static engine's polynomials hold at least one coefficient (its zero() is [0n])
PolyAdd ==
    /\ op = "none"
    /\ length(A) >= 1
    /\ length(B) >= 1
    /\ op' = "PolynomialMath.add"
    /\ out' = Ret(Poly_add(A, B))
    /\ UNCHANGED <<A, B, R, n>>

PolynomialsAdd ==
    /\ op = "none"
    /\ op' = "Polynomials.add"
    /\ \E r \in Rings :
        /\ R' = r
        /\ out' = Polynomials_addCall(r, PolyInRing(r, A), PolyInRing(r, B))
    /\ UNCHANGED <<A, B, n>>

NextPolyAdd == PolyAdd \/ PolynomialsAdd

SpecPolyAdd == InitPolyAdd /\ [][NextPolyAdd]_vars

\* ---- polynomials as text ----
\* "x", "x^k", or nothing for the constant term
XPower(i) == IF i = 0 THEN "" ELSE IF i = 1 THEN "x" ELSE "x^" \o ToString(i)

\* one term of the notation's grammar, Term := [Int "*"] ("x" ["^" Int] | Int),
\* for the coefficient c >= 1 of x^k
TermText(c, k) ==
    IF k = 0 THEN ToString(c)
    ELSE (IF c = 1 THEN "" ELSE ToString(c) \o "*") \o XPower(k)

\* a string of the grammar is written from its terms [sep, c, k], exponents descending
GrammarTerms ==
    {t \in UNION {[1..len -> [sep : {"+", "-"}, c : {1, 2, 3}, k : 0..MaxDeg]] :
                        len \in 1..(MaxDeg + 1)} :
        /\ t[1].sep = "+"
        /\ \A i \in 1..(Len(t) - 1) : t[i].k > t[i + 1].k}

RECURSIVE TextFrom(_, _)
TextFrom(t, i) ==
    IF i > Len(t) THEN ""
    ELSE (IF i = 1 THEN "" ELSE " " \o t[i].sep \o " ") \o TermText(t[i].c, t[i].k)
         \o TextFrom(t, i + 1)

\* the string a caller writes for the terms t, as in the literals of the tests
Text(t) == TextFrom(t, 1)

\* the coefficient array the caller expects for it
Denoted(t) ==
    [i \in 0..t[1].k |->
        IF \E j \in 1..Len(t) : t[j].k = i
        THEN LET j == CHOOSE j \in 1..Len(t) : t[j].k = i
             IN  IF t[j].sep = "-" THEN 0 - t[j].c ELSE t[j].c
        ELSE 0]

\* fromString of both engines: the body is `throw Error("unimplemented")`
fromString(str) == Throw("unimplemented")

Polynomials_fromString(r, str) == Throw("unimplemented")

\* the string A of the grammar, and the coefficients B its writer means
InitFromString ==
    /\ \E t \in GrammarTerms :
        /\ A = Text(t)
        /\ B = Denoted(t)
    /\ R = 0
    /\ n = 0
    /\ op = "none"
    /\ out = <<>>

FromString ==
    /\ op = "none"
    /\ op' = "PolynomialMath.fromString"
    /\ out' = fromString(A)
    /\ UNCHANGED <<A, B, R, n>>

PolynomialsFromString ==
    /\ op = "none"
    /\ op' = "Polynomials.fromString"
    /\ \E r \in Rings :
        /\ R' = r
        /\ out' = Polynomials_fromString(r, A)
    /\ UNCHANGED <<A, B, n>>

NextFromString == FromString \/ PolynomialsFromString

SpecFromString == InitFromString /\ [][NextFromString]_vars

\* the template literal of toString for the coefficient a of x^i; `one` tells
\* whether a is the domain's one (a === 1n, or R.equal(a, R.one()))
TermString(a, i, isOne) == (IF i > 0 /\ isOne THEN "" ELSE ToString(a)) \o XPower(i)

\* s.startsWith("0")
StartsWith0(str) == Len(str) >= 1 /\ SubSeq(str, 1, 1) = "0"

RECURSIVE JoinFrom(_, _, _)
\* filter(...).join(" + ") over the term strings ts, from index i on;
\* `first` tells that no string was kept so far
JoinFrom(ts, i, first) ==
    IF i >= length(ts) THEN ""
    ELSE IF StartsWith0(ts[i]) THEN JoinFrom(ts, i + 1, first)
    ELSE (IF first THEN "" ELSE " + ") \o ts[i] \o JoinFrom(ts, i + 1, FALSE)

toString(f) == JoinFrom([i \in DOMAIN f |-> TermString(f[i], i, f[i] = 1)], 0, TRUE)

ring_equal(r, x, y) == x = y

Polynomials_toString(r, f) ==
    JoinFrom([i \in DOMAIN f |-> TermString(f[i], i, ring_equal(r, f[i], ring_one(r)))], 0, TRUE)

\* an integer polynomial with small and larger coefficients of both signs
InitToString ==
    /\ A \in UNION {[0..(k - 1) -> {-2, -1, 0, 1, 3}] : k \in 1..(MaxDeg + 1)}
    /\ B = <<>>
    /\ R = 0
    /\ n = 0
    /\ op = "none"
    /\ out = <<>>

ToStringCall ==
    /\ op = "none"
    /\ op' = "PolynomialMath.toString"
    /\ out' = Ret(toString(A))
    /\ UNCHANGED <<A, B, R, n>>

PolynomialsToString ==
    /\ op = "none"
    /\ op' = "Polynomials.toString"
    /\ \E r \in Rings :
        /\ R' = r
        /\ out' = Ret(Polynomials_toString(r, PolyInRing(r, A)))
    /\ UNCHANGED <<A, B, n>>

NextToString == ToStringCall \/ PolynomialsToString

SpecToString == InitToString /\ [][NextToString]_vars

\* ---- sequences of calls of the fraction class ----
\* the number of calls in a sequence
MaxCalls == 2

\* the fraction A in hand, n calls made so far
InitRationals ==
    /\ A \in QValues
    /\ B = <<>>
    /\ R = 0
    /\ n = 0
    /\ op = "none"
    /\ out = <<>>

\* a call returned or threw `res`: a returned fraction is the one in hand from now on
Returned(name, operand, res) ==
    /\ op' = name
    /\ B' = operand
    /\ out' = res
    /\ A' = IF res.tag = "ok" THEN res.val ELSE A
    /\ n' = n + 1
    /\ UNCHANGED R

RationalsReduce ==
    /\ n < MaxCalls
    /\ Returned("Rationals.reduce", <<>>, Rationals_reduce(A.at[1], A.at[2]))

RationalsAdd ==
    /\ n < MaxCalls
    /\ \E y \in QValues : Returned("Rationals.add", y, Rationals_add(A, y))

RationalsSub ==
    /\ n < MaxCalls
    /\ \E y \in QValues : Returned("Rationals.sub", y, Rationals_sub(A, y))

RationalsMul ==
    /\ n < MaxCalls
    /\ \E y \in QValues : Returned("Rationals.mul", y, Rationals_mul(A, y))

RationalsDiv ==
    /\ n < MaxCalls
    /\ \E y \in QValues : Returned("Rationals.div", y, Rationals_div(A, y))

RationalsScale ==
    /\ n < MaxCalls
    /\ \E k \in {-2, 0, 3} : Returned("Rationals.scale", Bigint(k), Rationals_scale(k, A))

NextRationals ==
    \/ RationalsReduce \/ RationalsAdd \/ RationalsSub
    \/ RationalsMul \/ RationalsDiv \/ RationalsScale

SpecRationals == InitRationals /\ [][NextRationals]_vars

\* ---- derivative, resultant and discriminant of the static PolynomialMath ----
\* C16 mutant: the factor i + 1 of the power rule is left out
derivative_noFactor(f) ==
    IF length(f) = 1 THEN [i \in 0..0 |-> 0]
    ELSE [i \in 0..(deg(f) - 1) |-> f[i + 1]]

derivative(f) ==
    IF length(f) = 1 THEN [i \in 0..0 |-> 0]
    ELSE [i \in 0..(deg(f) - 1) |-> (i + 1) * f[i + 1]]

RECURSIVE ResultantLoop(_, _, _, _, _)
\* the two nested loops of resultant from the step (i, j) on, S the matrix so far
ResultantLoop(S, f, g, i, j) ==
    IF i > deg(f) THEN S
    ELSE IF j > deg(g) THEN ResultantLoop(S, f, g, i + 1, 0)
    ELSE LET S1 == IF j < deg(g) THEN [S EXCEPT ![j][i + j] = f[deg(f) - i]] ELSE S
             S2 == IF i < deg(f) THEN [S1 EXCEPT ![deg(g) + i][i + j] = g[deg(g) - j]] ELSE S1
         IN  ResultantLoop(S2, f, g, i, j + 1)

resultant(f, g) == det(ResultantLoop(zero(deg(f) + deg(g)), f, g, 0, 0))

\* (s * R) / an: the bigint division throws a RangeError when an is 0n
discriminant(f) ==
    LET k == deg(f)
        an == f[k]
        res == resultant(f, derivative(f))
        s == Sgn((k * (k - 1)) \div 2)
    IN  IF an = 0 THEN Throw("RangeError") ELSE Ret(Quot(s * res, an))

\* two polynomials of the static engine
InitResultant ==
    /\ A \in Polys(1, MaxDeg + 1)
    /\ B \in Polys(1, MaxDeg + 1)
    /\ R = 0
    /\ n = 0
    /\ op = "none"
    /\ out = <<>>

Resultant ==
    /\ op = "none"
    /\ op' = "PolynomialMath.resultant"
    /\ out' = Ret(resultant(A, B))
    /\ UNCHANGED <<A, B, R, n>>

NextResultant == Resultant

SpecResultant == InitResultant /\ [][NextResultant]_vars

\* one polynomial of the static engine, with coefficients -2..2
InitDiscriminant ==
    /\ A \in UNION {[0..(k - 1) -> -2..2] : k \in 1..(MaxDeg + 1)}
    /\ B = <<>>
    /\ R = 0
    /\ n = 0
    /\ op = "none"
    /\ out = <<>>

Derivative ==
    /\ op = "none"
    /\ op' = "PolynomialMath.derivative"
    /\ out' = Ret(derivative(A))
    /\ UNCHANGED <<A, B, R, n>>

Discriminant ==
    /\ op = "none"
    /\ op' = "PolynomialMath.discriminant"
    /\ out' = discriminant(A)
    /\ UNCHANGED <<A, B, R, n>>

NextDiscriminant == Derivative \/ Discriminant

SpecDiscriminant == InitDiscriminant /\ [][NextDiscriminant]_vars

\* ---- which array each call writes into ----
\* The caller holds two matrices, the objects "A" and "B"; a call writes into the
\* object its code names, and an argument holds afterwards what was written into
\* it, if anything was.
ArgA == "A"

ArgB == "B"

\* the arrays MatrixMath.zero builds with `new Array` belong to no caller
zeroRef == "fresh"

\* `new Array(...)` and f.map(...) of the polynomial routines
newArrayRef == "fresh"

\* C18 mutant: copy hands back the array it was given
copyRef_sameArray(ref) == ref

\* the array copy returns: B = MatrixMath.zero(n), filled from A
copyRef(ref) == zeroRef

\* what the object `ref` holds after a call wrote `written` into the object `target`
Held(ref, target, before, written) == IF target = ref THEN written ELSE before

\* the value a call wrote into its result array
Written(res, before) == IF res.tag = "ok" THEN res.val ELSE before

RECURSIVE LuWorking(_, _)
\* the working matrix U of luDecomposition when the call ends, from step k on
LuWorking(s, k) ==
    IF k >= length(s.U) THEN s.U
    ELSE LET r == LuLoop(s, k, k + 1)
         IN  IF r.tag = "throw" THEN s.U ELSE LuWorking(r.val, k + 1)

\* two matrices in the caller's hands, n calls made so far
InitFrame ==
    /\ \E k \in 1..MaxN : A \in PatternMats(k)
    /\ \E k \in 1..MaxN : B \in PatternMats(k)
    /\ R = 0
    /\ n = 0
    /\ op = "none"
    /\ out = <<>>

\* a call named `name` ended with `res`, having written `written` into `target`
Called(name, res, target, written) ==
    /\ op' = name
    /\ out' = res
    /\ n' = n + 1
    /\ A' = Held(ArgA, target, A, written)
    /\ B' = Held(ArgB, target, B, written)
    /\ UNCHANGED R

\* the same for a call handed the rows A[0] and B[0] as polynomials
CalledOnRows(name, res, target, written) ==
    /\ op' = name
    /\ out' = res
    /\ n' = n + 1
    /\ A' = [A EXCEPT ![0] = Held(ArgA, target, A[0], written)]
    /\ B' = [B EXCEPT ![0] = Held(ArgB, target, B[0], written)]
    /\ UNCHANGED R

FrameAdd ==
    /\ n < MaxCalls
    /\ Called("add", add(A, B), zeroRef, Written(add(A, B), A))

FrameSub ==
    /\ n < MaxCalls
    /\ Called("sub", sub(A, B), zeroRef, Written(sub(A, B), A))

FrameMul ==
    /\ n < MaxCalls
    /\ Called("mul", mul(A, B), zeroRef, Written(mul(A, B), A))

FrameScale ==
    /\ n < MaxCalls
    /\ \E k \in {-1, 2} : Called("scale", Ret(scale(A, k)), zeroRef, scale(A, k))

FrameTranspose ==
    /\ n < MaxCalls
    /\ Called("transpose", Ret(transpose(A)), zeroRef, transpose(A))

FrameMinor ==
    /\ n < MaxCalls
    /\ \E i \in DOMAIN A, j \in DOMAIN A :
            Called("minor", Ret(minor(A, i, j)), zeroRef, minor(A, i, j))

FrameCofactor ==
    /\ n < MaxCalls
    /\ Called("cofactor", Ret(cofactor(A)), zeroRef, cofactor(A))

FrameInverse ==
    /\ n < MaxCalls
    /\ Called("inverse", inverse(A), zeroRef, Written(inverse(A), A))

FrameDet ==
    /\ n < MaxCalls
    /\ Called("det", Ret(det(A)), zeroRef, minor(A, 0, 0))

FrameCharPoly ==
    /\ n < MaxCalls
    /\ Called("charPoly", Ret(charPoly(A)), zeroRef, charMatrix(A))

FrameLuDecomposition ==
    /\ n < MaxCalls
    /\ Called("luDecomposition", luDecomposition(A), copyRef(ArgA),
              LuWorking(LuStart(A), 0))

FramePolyAdd ==
    /\ n < MaxCalls
    /\ CalledOnRows("PolynomialMath.add", Ret(Poly_add(A[0], B[0])), newArrayRef,
                    Poly_add(A[0], B[0]))

FramePolySub ==
    /\ n < MaxCalls
    /\ CalledOnRows("PolynomialMath.sub", Ret(Poly_add(A[0], Poly_scale(B[0], -1))),
                    newArrayRef, Poly_add(A[0], Poly_scale(B[0], -1)))

FramePolyMul ==
    /\ n < MaxCalls
    /\ CalledOnRows("PolynomialMath.mul", Ret(Poly_mul(A[0], B[0])), newArrayRef,
                    Poly_mul(A[0], B[0]))

FramePolyScale ==
    /\ n < MaxCalls
    /\ \E k \in {-1, 2} :
            CalledOnRows("PolynomialMath.scale", Ret(Poly_scale(A[0], k)), newArrayRef,
                         Poly_scale(A[0], k))

FramePolyDerivative ==
    /\ n < MaxCalls
    /\ CalledOnRows("PolynomialMath.derivative", Ret(derivative(A[0])), newArrayRef,
                    derivative(A[0]))

NextFrame ==
    \/ FrameAdd \/ FrameSub \/ FrameMul \/ FrameScale \/ FrameTranspose \/ FrameMinor
    \/ FrameCofactor \/ FrameInverse \/ FrameDet \/ FrameCharPoly \/ FrameLuDecomposition
    \/ FramePolyAdd \/ FramePolySub \/ FramePolyMul \/ FramePolyScale \/ FramePolyDerivative

SpecFrame == InitFrame /\ [][NextFrame]_vars

\* ---- EllipticCurveMath: points of y^2 = x^3 + A*x + B modulo N ----
\* the largest factor k of scale
MaxK == 5

\* the point at infinity, 0n in the source; a finite point is the pair <<x, y>>
PointAtInfinity == <<>>

\* x % N of bigints takes the sign of x; a negative remainder is lifted by N
EllipticCurveMath_reduce(N, x) ==
    LET r == x - N * Quot(x, N)
    IN  IF r < 0 THEN r + N ELSE r

\* inv: xgcd(x, N) gives d = gcd(x, N) and y with y*x + _*N = d; when d is 1 the
\* reduced y is the one residue with y*x = 1 modulo N
EllipticCurveMath_inv(N, x) ==
    LET x0 == EllipticCurveMath_reduce(N, x)
    IN  IF gcd(x0, N) # 1 THEN Throw("unable to invert")
        ELSE Ret(CHOOSE y \in 0..(N - 1) : EllipticCurveMath_reduce(N, y * x0) = 1)

EllipticCurveMath_contains(E, P) ==
    \/ P = PointAtInfinity
    \/ /\ P # PointAtInfinity
       /\ EllipticCurveMath_reduce(E.N, P[2] * P[2])
            = EllipticCurveMath_reduce(E.N, P[1] * P[1] * P[1] + E.A * P[1] + E.B)

EllipticCurveMath_add(E, P, Q) ==
    IF P = PointAtInfinity THEN Ret(Q)
    ELSE IF Q = PointAtInfinity THEN Ret(P)
    ELSE IF P[1] = Q[1] /\ P[2] = 0 THEN Ret(PointAtInfinity)
    ELSE LET x1 == P[1]
             y1 == P[2]
             x2 == Q[1]
             y2 == Q[2]
             i == IF x1 # x2 THEN EllipticCurveMath_inv(E.N, x1 - x2)
                  ELSE EllipticCurveMath_inv(E.N, 2 * y1)
         IN  IF i.tag = "throw" THEN i
             ELSE LET delta == IF x1 # x2 THEN (y1 - y2) * i.val
                               ELSE (3 * x1 * x1 + E.A) * i.val
                      x == 0 - x1 - x2 + delta * delta
                      y == 0 - y1 + delta * (x1 - x)
                  IN  Ret(<<EllipticCurveMath_reduce(E.N, x), EllipticCurveMath_reduce(E.N, y)>>)

RECURSIVE ScaleLoop(_, _, _, _, _)
\* the while loop of scale: `result` takes Q when the low bit of k is set, P is
\* doubled, k is shifted right
ScaleLoop(E, k, P, Q, result) ==
    IF k <= 0 THEN Ret(result)
    ELSE LET r == IF k % 2 = 1 THEN EllipticCurveMath_add(E, result, Q) ELSE Ret(result)
         IN  IF r.tag = "throw" THEN r
             ELSE LET P2 == EllipticCurveMath_add(E, P, P)
                  IN  IF P2.tag = "throw" THEN P2
                      ELSE ScaleLoop(E, k \div 2, P2.val, Q, r.val)

RECURSIVE EllipticCurveMath_scale(_, _, _)
EllipticCurveMath_scale(E, k, P) ==
    IF k = 0 \/ P = PointAtInfinity THEN Ret(PointAtInfinity)
    ELSE IF k = 1 THEN Ret(P)
    ELSE IF k < 0
         THEN LET Q == EllipticCurveMath_scale(E, 0 - k, P)
              IN  IF Q.tag = "throw" \/ Q.val = PointAtInfinity THEN Q
                  ELSE Ret(<<Q.val[1], 0 - Q.val[2]>>)
    ELSE ScaleLoop(E, k, P, P, P)

\* the curves over the primes 5 and 7 that are elliptic: 4*A^3 + 27*B^2 is not 0 modulo N
Curves ==
    {E \in [A : 0..6, B : 0..6, N : {5, 7}] :
        /\ E.A < E.N
        /\ E.B < E.N
        /\ EllipticCurveMath_reduce(E.N, 4 * E.A * E.A * E.A + 27 * E.B * E.B) # 0}

\* the points of E: the point at infinity and the reduced pairs that satisfy the equation
PointsOf(E) ==
    {P \in {PointAtInfinity} \cup ((0..(E.N - 1)) \X (0..(E.N - 1))) :
        EllipticCurveMath_contains(E, P)}

\* a curve A, a point B on it and a factor n
InitCurve ==
    /\ A \in Curves
    /\ B \in PointsOf(A)
    /\ n \in 0..MaxK
    /\ R = 0
    /\ op = "none"
    /\ out = <<>>

EllipticCurveScale ==
    /\ op = "none"
    /\ op' = "EllipticCurveMath.scale"
    /\ out' = EllipticCurveMath_scale(A, n, B)
    /\ UNCHANGED <<A, B, R, n>>

EllipticCurveAdd ==
    /\ op = "none"
    /\ op' = "EllipticCurveMath.add"
    /\ out' = EllipticCurveMath_add(A, B, B)
    /\ UNCHANGED <<A, B, R, n>>

NextCurve == EllipticCurveScale \/ EllipticCurveAdd

SpecCurve == InitCurve /\ [][NextCurve]_vars

\* ---- C11..C19 ----

\* the m x m matrices the contract describes: all D.zero(), and D.one() on the diagonal
AllZero(m, z) == [i \in 0..(m - 1) |-> [j \in 0..(m - 1) |-> z]]

Identity(m, z, e) == [i \in 0..(m - 1) |-> [j \in 0..(m - 1) |-> IF i = j THEN e ELSE z]]

\* C11: over every coefficient domain D (the integers, the integers mod 5, the
\* fractions), zero() is the n x n matrix of D.zero(), one() has D.one() on the
\* diagonal and D.zero() elsewhere, add(zero(), A) returns A and mul(one(), one())
\* returns one().
C11_ZeroOneOverEveryDomain ==
    /\ (op = "Matrices.zero") => out = Ret(AllZero(n, ring_zero(R)))
    /\ (op = "Matrices.one") => out = Ret(Identity(n, ring_zero(R), ring_one(R)))
    /\ (op = "Matrices.add(zero, B)") => out = Ret(InRing(R, B))
    /\ (op = "Matrices.mul(one, one)") => out = Ret(Identity(n, ring_zero(R), ring_one(R)))
    /\ (op = "Matrices<Rationals>.zero") => out = Ret(AllZero(n, Rationals_zero))
    /\ (op = "Matrices<Rationals>.one") => out = Ret(Identity(n, Rationals_zero, Rationals_one))
    /\ (op = "Matrices<Rationals>.add(zero, A)") => out = Ret(A)
    /\ (op = "Matrices<Rationals>.mul(one, one)") =>
            out = Ret(Identity(n, Rationals_zero, Rationals_one))

\* the coefficient of x^i in f, 0 beyond its last one
Coeff(f, i) == IF i \in DOMAIN f THEN f[i] ELSE 0

\* C12: add(f, g) of either polynomial engine, the engine's zero polynomial
\* included as one or both operands, returns normally a sequence of length
\* max(deg(f), deg(g)) + 1 holding f[i] + g[i] on the overlap and the longer
\* operand's coefficient beyond it.
C12_AddKeepsEveryCoefficient ==
    (op \in {"PolynomialMath.add", "Polynomials.add"}) =>
        LET top == IF deg(A) < deg(B) THEN deg(B) ELSE deg(A)
        IN  /\ out.tag = "ok"
            /\ length(out.val) = top + 1
            /\ \A i \in 0..top :
                    out.val[i] = (IF op = "Polynomials.add"
                                  THEN ring_bint(R, Coeff(A, i) + Coeff(B, i))
                                  ELSE Coeff(A, i) + Coeff(B, i))

\* C13: fromString(s), for every string s of the polynomial grammar, returns the
\* coefficient sequence whose index i holds the coefficient of x^i, and raises no
\* error: "x^2 + 1" gives [1,0,1], "3*x^2 - 2*x + 1" gives [1,-2,3], "1" gives [1].
C13_FromStringParses ==
    (op \in {"PolynomialMath.fromString", "Polynomials.fromString"}) =>
        out = Ret(PolyInRing(R, B))

RECURSIVE CanonicalFrom(_, _, _)
\* the canonical text of the terms of f of degree i and below; `first` tells that
\* no term was written so far
CanonicalFrom(f, i, first) ==
    IF i < 0 THEN ""
    ELSE IF f[i] = 0 THEN CanonicalFrom(f, i - 1, first)
    ELSE (IF first THEN (IF f[i] < 0 THEN "-" ELSE "")
          ELSE (IF f[i] < 0 THEN " - " ELSE " + "))
         \o TermText(Abs(f[i]), i) \o CanonicalFrom(f, i - 1, FALSE)

\* C14: for f with a non-zero coefficient, toString(f) is the canonical form a_n*x^n + ... + a_1*x + a_0: terms in
\* descending degree, zero terms omitted, a negative coefficient's sign folded
\* into the separator, a coefficient 1 elided before x, and a '*' between every
\* other coefficient and its variable.
C14_ToStringCanonical ==
    /\ (op = "PolynomialMath.toString" /\ \E i \in DOMAIN A : A[i] # 0) =>
            out = Ret(CanonicalFrom(A, deg(A), TRUE))
    /\ (op = "Polynomials.toString" /\ \E i \in DOMAIN A : ring_bint(R, A[i]) # 0) =>
            out = Ret(CanonicalFrom(PolyInRing(R, A), deg(A), TRUE))

\* C15: starting from fractions in lowest terms with a non-zero denominator, every
\* pair returned by add, sub, mul, scale, div or reduce has a non-zero denominator
\* and gcd(numerator, denominator) = 1, div by a fraction of numerator 0 included.
C15_FractionsStayReduced ==
    (op # "none" /\ out.tag = "ok") =>
        /\ out.val.at[2] # 0
        /\ gcd(out.val.at[1], out.val.at[2]) = 1

\* the Sylvester matrix of f (degree k) and g (degree m): rows 0..m-1 hold f's
\* coefficients in descending order shifted right by the row index, rows m..m+k-1
\* hold g's likewise, all other entries 0
Sylvester(f, g) ==
    LET k == deg(f)
        m == deg(g)
    IN  [row \in 0..(k + m - 1) |->
            [col \in 0..(k + m - 1) |->
                IF row < m
                THEN (IF col - row \in 0..k THEN f[k - (col - row)] ELSE 0)
                ELSE (IF col - (row - m) \in 0..m THEN g[m - (col - (row - m))] ELSE 0)]]

\* the derivative by the power rule: the coefficient of x^i is (i + 1) * f[i + 1]
PowerRule(f) == [i \in 0..(deg(f) - 1) |-> (i + 1) * f[i + 1]]

RECURSIVE Power(_, _)
Power(c, k) == IF k = 0 THEN 1 ELSE c * Power(c, k - 1)

\* C16: for f of degree k >= 1 with non-zero leading coefficient, discriminant(f)
\* times f[k] is exactly (-1)^(k(k-1)/2) times the resultant of f and its
\* derivative (the determinant of their Sylvester matrix): the division leaves no
\* remainder; discriminant([c, b, a]) = b*b - 4*a*c and discriminant([b, a]) = 1.
C16_DiscriminantExact ==
    (op = "PolynomialMath.discriminant" /\ deg(A) >= 1 /\ A[deg(A)] # 0) =>
        LET k == deg(A)
        IN  /\ out.tag = "ok"
            /\ out.val * A[k]
                 = Sgn((k * (k - 1)) \div 2) * Leibniz(Sylvester(A, PowerRule(A)))
            /\ (k = 2) => out.val = A[1] * A[1] - 4 * A[2] * A[0]
            /\ (k = 1) => out.val = 1

\* a quadratic with leading coefficient -2 and discriminant 1 - 4 * (-2) * 2 = 17
C16_Witness ==
    /\ op = "PolynomialMath.discriminant"
    /\ deg(A) = 2
    /\ A[2] = -2
    /\ A[1] = 1
    /\ A[0] = 2
    /\ out = Ret(17)

\* C17: resultant(f, g) is the determinant of the Sylvester matrix of f and g, the
\* determinant of the 0 x 0 matrix being 1; so resultant(f, g) is (-1)^(deg f * deg g)
\* times resultant(g, f), and resultant(f, [c]) is c^(deg f).
C17_ResultantIsSylvesterDet ==
    (op = "PolynomialMath.resultant") =>
        /\ out = Ret(Leibniz(Sylvester(A, B)))
        /\ out.val = Sgn(deg(A) * deg(B)) * resultant(B, A)
        /\ (deg(B) = 0) => out.val = Power(B[0], deg(A))

RECURSIVE KFoldSum(_, _, _)
\* P + P + ... + P with k summands, added from the left with EllipticCurveMath.add
KFoldSum(E, k, P) ==
    IF k = 0 THEN Ret(PointAtInfinity)
    ELSE IF k = 1 THEN Ret(P)
    ELSE LET S == KFoldSum(E, k - 1, P)
         IN  IF S.tag = "throw" THEN S ELSE EllipticCurveMath_add(E, S.val, P)

\* C19: for every point P of an elliptic curve E over a prime and every k >= 0,
\* scale(E, k, P) is the k-fold sum of P computed with add: the point at infinity
\* for k = 0, P for k = 1, add(add(add(P, P), P), P) for k = 4.
C19_ScaleIsKFoldSum ==
    (op = "EllipticCurveMath.scale") => out = KFoldSum(A, n, B)

====
